---- MODULE Spec2Model ----
(***************************************************************************)
(* Segment codec of the RTZ text-record tools: the scanners that locate    *)
(* length-prefixed UTF-16LE records in a byte buffer, the classifier, and  *)
(* the two encoders (fixed-slot patching, resizing injection).             *)
(*                                                                         *)
(* Bytes are integers 0..255, buffers are sequences of bytes, offsets are  *)
(* 0-based as in the Python source (TLA+ sequences are 1-based, so byte    *)
(* offset i of buffer d is d[i+1]).  Text is a sequence of code points.    *)
(***************************************************************************)
EXTENDS Integers, Sequences, FiniteSets, TLC

(***************************************************************************)
(* Bounds of the model.                                                    *)
(***************************************************************************)
\* An input buffer is the concatenation of at most MaxChunks chunks.
MaxChunks == 2
\* The caller-supplied start offset ranges over 0..MaxStart.
MaxStart == 1
\* Translation maps of the injector have keys in 1..MaxKey.
MaxKey == 2

(***************************************************************************)
(* Python sequence helpers.                                                *)
(***************************************************************************)
Min(a, b) == IF a < b THEN a ELSE b

Max(a, b) == IF a > b THEN a ELSE b

\* d[a:b] for 0 <= a, 0 <= b (a slice never raises; it is clamped).
Slice(d, a, b) == SubSeq(d, a + 1, Min(b, Len(d)))

\* d[i], 0-based.
At(d, i) == d[i + 1]

\* n copies of the sequence s (Python's s * n).
Repeat(s, n) ==
    IF n <= 0 THEN <<>> ELSE [i \in 1..(n * Len(s)) |-> s[((i - 1) % Len(s)) + 1]]

\* Concatenation of a sequence of sequences.
RECURSIVE Flatten(_)
Flatten(ss) == IF ss = <<>> THEN <<>> ELSE Head(ss) \o Flatten(Tail(ss))

\* bytes.find(sub): the lowest 0-based offset where sub occurs in d, or -1.
Find(d, sub) ==
    LET hits == {i \in 0..(Len(d) - Len(sub)) : Slice(d, i, i + Len(sub)) = sub}
    IN  IF hits = {} THEN -1 ELSE CHOOSE i \in hits : \A j \in hits : i <= j

(***************************************************************************)
(* The sentinel that ends the record region.                               *)
(***************************************************************************)
TERMINATOR == <<255, 255, 255, 255, 0>>

(***************************************************************************)
(* Text.  A Python str is a sequence of code points.                       *)
(***************************************************************************)
\* U+2020, the private newline marker written into payloads.
DAGGER == 8224

\* U+000A.
LF == 10

\* U+0020.
SPACE == 32

IsHighSurrogate(u) == u \in 55296..56319

IsLowSurrogate(u) == u \in 56320..57343

\* The UTF-16 code units of an even-length byte string, little-endian.
Units(bs) == [i \in 1..(Len(bs) \div 2) |-> bs[2 * i - 1] + 256 * bs[2 * i]]

\* bytes.decode("utf-16-le", errors="ignore") of a sequence of code units:
\* a surrogate pair is one code point, an unpaired surrogate is dropped.
RECURSIVE DecodeUnits(_)
DecodeUnits(us) ==
    IF us = <<>> THEN <<>>
    ELSE IF IsHighSurrogate(us[1]) /\ Len(us) >= 2 /\ IsLowSurrogate(us[2])
         THEN <<65536 + (us[1] - 55296) * 1024 + (us[2] - 56320)>>
                  \o DecodeUnits(SubSeq(us, 3, Len(us)))
    ELSE IF IsHighSurrogate(us[1]) \/ IsLowSurrogate(us[1])
         THEN DecodeUnits(Tail(us))
    ELSE <<us[1]>> \o DecodeUnits(Tail(us))

\* bytes.decode("utf-16-le", errors="ignore"); a trailing odd byte is dropped.
\* Without surrogates every code unit is its own code point.
Decode(bs) ==
    IF \A i \in 1..Len(Units(bs)) :
           ~IsHighSurrogate(Units(bs)[i]) /\ ~IsLowSurrogate(Units(bs)[i])
    THEN Units(bs)
    ELSE DecodeUnits(Units(bs))

\* str.encode("utf-16-le") of one code point.
EncodeChar(c) ==
    IF c >= 65536
    THEN LET v == c - 65536
             hi == 55296 + (v \div 1024)
             lo == 56320 + (v % 1024)
         IN  <<hi % 256, hi \div 256, lo % 256, lo \div 256>>
    ELSE <<c % 256, c \div 256>>

\* str.encode("utf-16-le") of a text with a code point above U+FFFF.
RECURSIVE EncodeEach(_)
EncodeEach(text) ==
    IF text = <<>> THEN <<>> ELSE EncodeChar(Head(text)) \o EncodeEach(Tail(text))

\* str.encode("utf-16-le"): two bytes for each code point up to U+FFFF, low
\* byte first, and a surrogate pair for each code point above.
Encode(text) ==
    IF \A i \in 1..Len(text) : text[i] < 65536
    THEN [k \in 1..(2 * Len(text)) |->
             IF k % 2 = 1 THEN text[(k + 1) \div 2] % 256 ELSE text[k \div 2] \div 256]
    ELSE EncodeEach(text)

\* str.replace(a, b) for single characters a, b.
ReplaceChar(text, a, b) == [i \in 1..Len(text) |-> IF text[i] = a THEN b ELSE text[i]]

(***************************************************************************)
(* Character classes of Python 3 (unicodedata), stated for the Unicode     *)
(* blocks that the model's buffers, texts and the source's own patterns    *)
(* and term lists draw from: Basic Latin, Latin-1, Latin Extended,         *)
(* Cyrillic, Armenian capitals, General Punctuation, CJK Symbols,          *)
(* Hiragana, Katakana, CJK ideographs, Halfwidth and Fullwidth Forms.      *)
(* Code points of other blocks are in none of the classes.                 *)
(***************************************************************************)
\* str.isprintable()
IsPrintable(c) ==
    \/ c \in 32..126 \/ c \in 161..172 \/ c \in 174..887 \/ c = 1023
    \/ c \in 1024..1327 \/ c \in 1329..1366
    \/ c \in 8208..8231 \/ c \in 8240..8286 \/ c \in 8448..8587
    \/ c \in 12289..12351 \/ c \in 12353..12438 \/ c \in 12441..12543
    \/ c \in 13312..19903 \/ c \in 19968..40879 \/ c \in 65281..65470

\* str.isspace(): what str.strip() removes and the regex class \s matches.
IsSpace(c) ==
    \/ c \in 9..13 \/ c \in 28..32 \/ c = 133 \/ c = 160
    \/ c \in 8192..8202 \/ c = 12288

\* str.isalpha()
IsAlpha(c) ==
    \/ c \in 65..90 \/ c \in 97..122 \/ c \in 192..214 \/ c \in 216..246
    \/ c \in 248..705 \/ c = 1023 \/ c \in 1024..1153 \/ c \in 1162..1327
    \/ c \in 1329..1366 \/ c = 8490 \/ c \in 12293..12294
    \/ c \in 12353..12438 \/ c \in 12449..12538 \/ c \in 12540..12543
    \/ c \in 13312..19903 \/ c \in 19968..40879
    \/ c \in 65313..65338 \/ c \in 65345..65370

\* The regex class \d.
IsDigit(c) == c \in 48..57 \/ c \in 65296..65305

\* The regex class \w: alphanumerics and the underscore.
IsWord(c) == IsAlpha(c) \/ IsDigit(c) \/ c = 95 \/ c = 12295

\* str.lower() of one character.  Beyond A-Z the table lists the cased
\* characters that pairs of the model's buffer bytes form (U+0130 lowers to
\* two code points).
LowerOf(c) ==
    IF c \in 65..90 THEN <<c + 32>>
    ELSE IF c \in {256, 258, 512, 514, 560, 1280, 1282} THEN <<c + 1>>
    ELSE IF c = 304 THEN <<105, 775>>
    ELSE IF c = 1023 THEN <<893>>
    ELSE IF c = 1346 THEN <<1394>>
    ELSE IF c = 8490 THEN <<107>>
    ELSE IF c = 65328 THEN <<65360>>
    ELSE <<c>>

\* str.lower()
RECURSIVE Lower(_)
Lower(text) ==
    IF text = <<>> THEN <<>> ELSE LowerOf(Head(text)) \o Lower(Tail(text))

\* str.strip(): leading and trailing whitespace removed.
RECURSIVE LStrip(_)
LStrip(text) ==
    IF text # <<>> /\ IsSpace(Head(text)) THEN LStrip(Tail(text)) ELSE text

RECURSIVE RStrip(_)
RStrip(text) ==
    IF text # <<>> /\ IsSpace(text[Len(text)])
    THEN RStrip(SubSeq(text, 1, Len(text) - 1))
    ELSE text

Strip(text) == RStrip(LStrip(text))

\* sub in text
Contains(text, sub) ==
    \E i \in 0..(Len(text) - Len(sub)) : Slice(text, i, i + Len(sub)) = sub

\* The characters of text whose index keep marks, in order.
SelectChars(text, keep) ==
    LET F[i \in 0..Len(text)] ==
            IF i = 0 THEN <<>>
            ELSE IF keep[i] THEN Append(F[i - 1], text[i]) ELSE F[i - 1]
    IN  F[Len(text)]

(***************************************************************************)
(* Markup normalizer: clean_text of extract_rtz_filtered.py.               *)
(***************************************************************************)
\* The least index i >= from with text[i] = c, or 0.
IndexFrom(text, c, from) ==
    LET hits == {i \in from..Len(text) : text[i] = c}
    IN  IF hits = {} THEN 0 ELSE CHOOSE i \in hits : \A j \in hits : i <= j

\* A match of CLEANER_KANA, <\|([^|]+)\|[^|]*\|>, at the head of text:
\* <<length of the match, group 1>>, or <<0, <<>> >> when there is none.
KanaMatch(text) ==
    IF Len(text) >= 6 /\ text[1] = 60 /\ text[2] = 124
    THEN LET b1 == IndexFrom(text, 124, 3)
             b2 == IF b1 = 0 THEN 0 ELSE IndexFrom(text, 124, b1 + 1)
         IN  IF b1 >= 4 /\ b2 > 0 /\ b2 < Len(text) /\ text[b2 + 1] = 62
             THEN <<b2 + 1, SubSeq(text, 3, b1 - 1)>>
             ELSE <<0, <<>> >>
    ELSE <<0, <<>> >>

\* CLEANER_KANA.sub(r'\1', s)
RECURSIVE SubKana(_)
SubKana(text) ==
    IF text = <<>> THEN <<>>
    ELSE LET m == KanaMatch(text)
         IN  IF m[1] > 0
             THEN m[2] \o SubKana(SubSeq(text, m[1] + 1, Len(text)))
             ELSE <<Head(text)>> \o SubKana(Tail(text))

\* The number of leading characters of text that satisfy the regex class \d.
RECURSIVE DigitRun(_)
DigitRun(text) ==
    IF text # <<>> /\ IsDigit(Head(text)) THEN 1 + DigitRun(Tail(text)) ELSE 0

\* The length of a match of CLEANER_TAGS, \{\$\d+\}|\{\$\}, at the head of
\* text, or 0.
TagMatch(text) ==
    IF Len(text) >= 3 /\ text[1] = 123 /\ text[2] = 36
    THEN LET n == DigitRun(SubSeq(text, 3, Len(text)))
         IN  IF Len(text) >= n + 3 /\ text[n + 3] = 125 THEN n + 3 ELSE 0
    ELSE 0

\* CLEANER_TAGS.sub('', s)
RECURSIVE SubTags(_)
SubTags(text) ==
    IF text = <<>> THEN <<>>
    ELSE LET n == TagMatch(text)
         IN  IF n > 0
             THEN SubTags(SubSeq(text, n + 1, Len(text)))
             ELSE <<Head(text)>> \o SubTags(Tail(text))

\* re.sub(r'[ \t]+', ' ', s)
RECURSIVE CollapseBlanks(_)
CollapseBlanks(text) ==
    IF text = <<>> THEN <<>>
    ELSE IF Head(text) \in {32, 9}
         THEN IF Len(text) >= 2 /\ text[2] \in {32, 9}
              THEN CollapseBlanks(Tail(text))
              ELSE <<32>> \o CollapseBlanks(Tail(text))
    ELSE <<Head(text)>> \o CollapseBlanks(Tail(text))

\* clean_text's s before the final strip(): steps 1 to 4.
clean_text_steps(s) == ReplaceChar(CollapseBlanks(SubTags(SubKana(s))), DAGGER, LF)

clean_text(s) == Strip(clean_text_steps(s))

(***************************************************************************)
(* Markup normalizer of translate_tutorials.py: clean_japanese_text.       *)
(***************************************************************************)
\* The class [\x00-\x08\x0B-\x0C\x0E-\x1F\x7F-\x9F].
IsControl(c) == c \in (0..8) \cup (11..12) \cup (14..31) \cup (127..159)

\* re.sub(r'[\x00-\x08\x0B-\x0C\x0E-\x1F\x7F-\x9F]', '', text)
RemoveControls(text) ==
    SelectChars(text, [i \in 1..Len(text) |-> ~IsControl(text[i])])

\* The class [0-9A-Fa-f].
IsHexDigit(c) == c \in (48..57) \cup (65..70) \cup (97..102)

\* The number of leading characters of text in [0-9A-Fa-f].
RECURSIVE HexRun(_)
HexRun(text) ==
    IF text # <<>> /\ IsHexDigit(Head(text)) THEN 1 + HexRun(Tail(text)) ELSE 0

\* The length of a match of \{\$[0-9A-Fa-f]*\} at the head of text, or 0.
HexTagMatch(text) ==
    IF Len(text) >= 3 /\ text[1] = 123 /\ text[2] = 36
    THEN LET n == HexRun(SubSeq(text, 3, Len(text)))
         IN  IF Len(text) >= n + 3 /\ text[n + 3] = 125 THEN n + 3 ELSE 0
    ELSE 0

\* re.sub(r'\{\$[0-9A-Fa-f]*\}', '', text)
RECURSIVE SubHexTags(_)
SubHexTags(text) ==
    IF text = <<>> THEN <<>>
    ELSE LET n == HexTagMatch(text)
         IN  IF n > 0
             THEN SubHexTags(SubSeq(text, n + 1, Len(text)))
             ELSE <<Head(text)>> \o SubHexTags(Tail(text))

\* re.sub(r'\s+', ' ', text)
RECURSIVE CollapseSpace(_)
CollapseSpace(text) ==
    IF text = <<>> THEN <<>>
    ELSE IF IsSpace(Head(text))
         THEN IF Len(text) >= 2 /\ IsSpace(text[2])
              THEN CollapseSpace(Tail(text))
              ELSE <<32>> \o CollapseSpace(Tail(text))
    ELSE <<Head(text)>> \o CollapseSpace(Tail(text))

\* clean_japanese_text's text before the final strip().
clean_japanese_text_steps(text) ==
    CollapseSpace(
        ReplaceChar(
            ReplaceChar(ReplaceChar(SubHexTags(SubKana(RemoveControls(text))),
                                    65380, 12289),
                        65377, 12290),
            DAGGER, LF))

clean_japanese_text(text) ==
    IF text = <<>> THEN <<>> ELSE Strip(clean_japanese_text_steps(text))

(***************************************************************************)
(* Content classifier of extract_rtz_filtered.py.                          *)
(***************************************************************************)
\* Hiragana, Katakana, CJK Unified Ideographs, Halfwidth/Fullwidth Forms.
IsJapaneseChar(c) ==
    \/ c \in 12352..12447 \/ c \in 12448..12543
    \/ c \in 19968..40879 \/ c \in 65280..65519

\* The class [\s\.,!?\-・。、†\n\r] removed by is_japanese_text.
IsPunctOrSpace(c) == IsSpace(c) \/ c \in {46, 44, 33, 63, 45, 12539, 12290, 12289, 8224}

is_japanese_text(text) ==
    IF text = <<>> \/ Len(Strip(text)) < 3 THEN FALSE
    ELSE LET stripped == SelectChars(text, [i \in 1..Len(text) |-> ~IsPunctOrSpace(text[i])])
             total_chars == Cardinality({i \in 1..Len(stripped) : IsPrintable(stripped[i])})
             japanese_chars == Cardinality({i \in 1..Len(stripped) :
                                   IsPrintable(stripped[i]) /\ IsJapaneseChar(stripped[i])})
         IN  IF Len(stripped) < 3 \/ total_chars = 0 THEN FALSE
             ELSE 10 * japanese_chars >= 3 * total_chars

\* game_terms of contains_game_terms.
game_terms ==
    { <<12532, 12449, 12531, 12460, 12540, 12489>>,
      <<118, 97, 110, 103, 117, 97, 114, 100>>,
      <<12460, 12540, 12489>>,
      <<103, 117, 97, 114, 100>>,
      <<12450, 12479, 12483, 12463>>,
      <<97, 116, 116, 97, 99, 107>>,
      <<12480, 12513, 12540, 12472>>,
      <<100, 97, 109, 97, 103, 101>>,
      <<12502, 12540, 12473, 12488>>,
      <<98, 111, 111, 115, 116>>,
      <<12497, 12527, 12540>>,
      <<112, 111, 119, 101, 114>>,
      <<12522, 12450, 12460, 12540, 12489>>,
      <<114, 101, 97, 114>>,
      <<12489, 12521, 12452, 12502>>,
      <<100, 114, 105, 118, 101>>,
      <<12481, 12455, 12483, 12463>>,
      <<99, 104, 101, 99, 107>>,
      <<12488, 12522, 12460, 12540>>,
      <<116, 114, 105, 103, 103, 101, 114>>,
      <<12518, 12491, 12483, 12488>>,
      <<117, 110, 105, 116>>,
      <<12459, 12540, 12489>>,
      <<99, 97, 114, 100>>,
      <<12496, 12488, 12523>>,
      <<98, 97, 116, 116, 108, 101>>,
      <<12479, 12540, 12531>>,
      <<116, 117, 114, 110>>,
      <<12501, 12451, 12540, 12523, 12489>>,
      <<102, 105, 101, 108, 100>>,
      <<12473, 12486, 12483, 12503>>,
      <<115, 116, 101, 112>> }

\* A variant of contains_game_terms that knows no term.
contains_game_terms_None(text) == FALSE

contains_game_terms(text) ==
    LET text_lower == Lower(text) IN \E term \in game_terms : Contains(text_lower, term)

\* dialogue_patterns of has_dialogue_patterns; the last pattern of the source
\* is a character class, so it matches any one of its characters.
has_dialogue_patterns(text) ==
    \/ \E i \in 1..Len(text) : text[i] \in {12290, 65281, 65311}
    \/ \E w \in { <<12384, 12424>>,
                 <<12391, 12377>>,
                 <<12391, 12354, 12427>>,
                 <<12384, 12397>>,
                 <<12391, 12375, 12423>>,
                 <<12431, 12290>>,
                 <<12398, 12290>>,
                 <<12424, 12290>> } : Contains(text, w)
    \/ \E w \in { <<12371, 12428>>,
                 <<12381, 12428>>,
                 <<12354, 12428>>,
                 <<12371, 12398>>,
                 <<12381, 12398>>,
                 <<12354, 12398>> } : Contains(text, w)
    \/ \E w \in { <<12391, 12377>>,
                 <<12414, 12377>>,
                 <<12384>>,
                 <<12391, 12354, 12427>> } : Contains(text, w)
    \/ \E i \in 1..Len(text) : text[i] \in {12387, 12390, 124, 12392, 12356, 12358, 12383}

\* Whether character c matches the lower-case ASCII letter l under
\* re.IGNORECASE (i, s and k have non-ASCII case variants).
CaseEq(c, l) ==
    \/ c = l \/ c = l - 32
    \/ (l = 105 /\ c \in {304, 305})
    \/ (l = 115 /\ c = 383)
    \/ (l = 107 /\ c = 8490)

\* Whether text matches the lower-case ASCII word w under re.IGNORECASE,
\* a blank of w matching a blank.
MatchesIC(text, w) ==
    /\ Len(text) = Len(w)
    /\ \A i \in 1..Len(w) : IF w[i] = 32 THEN text[i] = 32 ELSE CaseEq(text[i], w[i])

\* [a-zA-Z] under re.IGNORECASE.
IsLetterIC(c) == c \in 65..90 \/ c \in 97..122 \/ c \in {304, 305, 383, 8490}

\* [0-9A-Fa-f] under re.IGNORECASE.
IsHexIC(c) == c \in 48..57 \/ c \in 65..70 \/ c \in 97..102

\* text without the one newline that the regex anchor $ may stand before.
BeforeDollar(text) ==
    {text} \cup (IF text # <<>> /\ text[Len(text)] = LF
                 THEN {SubSeq(text, 1, Len(text) - 1)} ELSE {})

\* The literals of the copyright pattern, lower-cased.
COPYRIGHT == <<99, 111, 112, 121, 114, 105, 103, 104, 116>>

RESERVED == <<97, 108, 108, 32, 114, 105, 103, 104, 116, 115, 32, 114, 101, 115, 101, 114, 118, 101, 100>>

\* junk_patterns of is_likely_filepath_or_junk, searched with re.IGNORECASE.
is_likely_filepath_or_junk(text) ==
    \/ Len(text) >= 3 /\ IsLetterIC(text[1]) /\ text[2] = 58 /\ text[3] \in {47, 92}
    \/ \E i \in 1..Len(text) : \E j \in (i + 2)..Len(text) :
           /\ text[i] = 47 /\ text[j] = 47
           /\ \A k \in (i + 1)..(j - 1) : IsLetterIC(text[k]) \/ text[k] \in 48..57 \/ text[k] = 95
    \/ \E t \in BeforeDollar(text) : \E ext \in {<<100, 108, 108>>, <<101, 120, 101>>, <<98, 105, 110>>, <<114, 116, 122>>, <<111, 114, 98>>} :
           /\ Len(t) >= 4 /\ t[Len(t) - 3] = 46
           /\ MatchesIC(SubSeq(t, Len(t) - 2, Len(t)), ext)
    \/ \E t \in BeforeDollar(text) :
           Len(t) >= 8 /\ \A i \in 1..Len(t) : IsHexIC(t[i])
    \/ /\ Len(text) >= Len(COPYRIGHT) + Len(RESERVED)
       /\ MatchesIC(SubSeq(text, 1, Len(COPYRIGHT)), COPYRIGHT)
       /\ \E i \in (Len(COPYRIGHT) + 1)..(Len(text) - Len(RESERVED) + 1) :
              /\ MatchesIC(SubSeq(text, i, i + Len(RESERVED) - 1), RESERVED)
              /\ \A k \in (Len(COPYRIGHT) + 1)..(i - 1) : text[k] # LF
    \/ \E w \in {<<26994, 29808>>, <<28532, 12383>>, <<30068, 28532>>, <<29797, 30068>>} : Contains(text, w)
    \/ /\ Len(text) >= 5
       /\ \A i \in 1..5 : ~(\/ text[i] \in 12352..40879 \/ text[i] \in 65280..65519
                            \/ IsWord(text[i]) \/ IsSpace(text[i]))

\* The filter criteria of extract_segments.
is_valid_text(clean) ==
    /\ Len(Strip(clean)) >= 3
    /\ ~is_likely_filepath_or_junk(clean)
    /\ (is_japanese_text(clean) \/ contains_game_terms(clean) \/ has_dialogue_patterns(clean))

(***************************************************************************)
(* Input buffers: the concatenation of at most MaxChunks of these pieces.  *)
(***************************************************************************)
\* A record whose payload is three Hiragana letters.
RecJ == <<0, 0, 0, 0, 3, 66, 48, 66, 48, 66, 48>>

\* A record with non-zero metadata whose payload is U+3001 U+3042.
RecK == <<1, 0, 0, 0, 2, 1, 48, 66, 48>>

\* A record header that declares no code units.
RecZero == <<0, 0, 0, 0, 0>>

\* A record header that declares five code units, without its payload.
HdrFive == <<0, 0, 0, 0, 5>>

\* A record whose payload begins with the bytes of the sentinel.
RecS == <<0, 0, 0, 0, 5, 255, 255, 255, 255, 0, 48, 66, 48, 66, 48>>

\* One byte of filler.
Fill == <<0>>

\* A record of one code unit.
RecOne == <<0, 0, 0, 0, 1, 66, 48>>

Chunks == {TERMINATOR, RecJ, RecK, RecZero, HdrFive, RecS, Fill, RecOne}

Buffers == {Flatten(cs) : cs \in UNION {[1..k -> Chunks] : k \in 0..MaxChunks}}

StartOffsets == 0..MaxStart

(***************************************************************************)
(* Translations.                                                           *)
(***************************************************************************)
\* Texts the injector's translation maps hold.
InjectTexts == { <<>>, <<65, LF, 66>>, Repeat(<<65>>, 201), Repeat(<<65>>, 256) }

\* The translation maps (segment id -> text) handed to the injector.
TranslationMaps == UNION {[ks -> InjectTexts] : ks \in SUBSET (1..MaxKey)}

(***************************************************************************)
(* State.                                                                  *)
(***************************************************************************)
VARIABLES
    data,          \* the bytes of the input file
    routine,       \* the routine that runs
    pc,            \* its position: "start", "scan", ..., "done"
    start_offset,  \* the start offset handed to the scanner
    pos,           \* the scan cursor
    segments,      \* the segments registered so far, in registration order
    stop,          \* why the scan loop ended: "", "terminator", "bounds", "end"
    translations,  \* the injector's translation map
    buf,           \* translate_and_patch's working copy of the file
    idx,           \* translate_and_patch's position in reversed(segments)
    output,        \* the output file: [written, bytes]
    result,        \* inject_translations's return value, "" before it returns
    text_patterns, \* what rtz_structure_analyzer returns for a file without terminator
    in_text,       \* the string handed to the normalizer or the classifier
    untrimmed,     \* the normalizer's text just before its final strip()
    out_text,      \* the normalizer's result
    verdict,       \* the classifier's verdicts so far, in order
    csv_rows       \* the rows of tutorial_for_translation.csv, in order

\* The variables of the scanners and the encoders.
codecvars == <<data, routine, pc, start_offset, pos, segments, stop,
               translations, buf, idx, output, result, text_patterns>>

\* The variables of the normalizer and the classifier taken alone.
textvars == <<in_text, untrimmed, out_text, verdict>>

\* The variables of the extraction report.
reportvars == <<csv_rows>>

vars == <<codecvars, textvars, reportvars>>

NoOutput == [written |-> FALSE, bytes |-> <<>>]

Written(bs) == [written |-> TRUE, bytes |-> bs]

Init ==
    /\ data \in Buffers
    /\ routine = ""
    /\ pc = "start"
    /\ start_offset = 0
    /\ pos = 0
    /\ segments = <<>>
    /\ stop = ""
    /\ translations = <<>>
    /\ buf = <<>>
    /\ idx = 0
    /\ output = NoOutput
    /\ result = ""
    /\ text_patterns = <<>>
    /\ in_text = <<>>
    /\ untrimmed = <<>>
    /\ out_text = <<>>
    /\ verdict = <<>>
    /\ csv_rows = <<>>

(***************************************************************************)
(* RTZInjector (inject_rtz_translations.py).                               *)
(***************************************************************************)
\* struct.pack('B', n) succeeds for 0 <= n <= 255 and raises otherwise.
PackRaises(n) == n < 0 \/ n > 255

\* A variant of encode_text_segment that writes the byte count of the payload
\* to the length byte.
encode_text_segment_ByteLength(text) ==
    IF text = <<>> THEN <<>>
    ELSE <<0, 0, 0, 0>> \o <<Len(Encode(ReplaceChar(text, LF, DAGGER))) % 256>>
             \o Encode(ReplaceChar(text, LF, DAGGER))

\* RTZInjector.encode_text_segment, when it returns.
encode_text_segment(text) ==
    IF text = <<>> THEN <<>>
    ELSE LET utf16_bytes == Encode(ReplaceChar(text, LF, DAGGER))
             utf16_length == Len(utf16_bytes) \div 2
         IN  <<0, 0, 0, 0>> \o <<utf16_length>> \o utf16_bytes

\* Whether RTZInjector.encode_text_segment raises (struct.error).
encode_raises(text) ==
    text # <<>> /\ PackRaises(Len(Encode(ReplaceChar(text, LF, DAGGER))) \div 2)

\* inject_translations is entered: the file is read, find_text_segments(data)
\* starts at offset 0.
CallInjectTranslations ==
    /\ pc = "start"
    /\ \E t \in TranslationMaps : translations' = t
    /\ routine' = "inject_translations"
    /\ pc' = "scan"
    /\ start_offset' = 0
    /\ pos' = 0
    /\ UNCHANGED <<data, segments, stop, buf, idx, output, result, text_patterns>>
    /\ UNCHANGED textvars
    /\ UNCHANGED reportvars

\* One test of the loop condition of RTZInjector.find_text_segments and,
\* when it holds, one run of the loop body.
FindTextSegmentsStep ==
    /\ pc = "scan"
    /\ routine = "inject_translations"
    /\ IF pos + 5 > Len(data)
       THEN /\ stop' = "end" /\ pc' = "inject" /\ UNCHANGED <<pos, segments>>
       ELSE IF Slice(data, pos, pos + 5) = TERMINATOR
       THEN /\ stop' = "terminator" /\ pc' = "inject" /\ UNCHANGED <<pos, segments>>
       ELSE LET length == At(data, pos + 4)
                byte_length == length * 2
                content_start == pos + 5
                content_end == content_start + byte_length
            IN  IF content_end > Len(data)
                THEN /\ stop' = "bounds" /\ pc' = "inject"
                     /\ UNCHANGED <<pos, segments>>
                ELSE /\ segments' = Append(segments,
                            [prefix_pos |-> pos, content_start |-> content_start,
                             content_end |-> content_end])
                     /\ pos' = content_end
                     /\ UNCHANGED <<stop, pc>>
    /\ UNCHANGED <<data, routine, start_offset, translations, buf, idx, output, result,
                   text_patterns>>
    /\ UNCHANGED textvars
    /\ UNCHANGED reportvars

\* Whether segment_id is translated: it is a key of the map with a non-empty
\* text.
IsTranslated(trans, segment_id) ==
    segment_id \in DOMAIN trans /\ trans[segment_id] # <<>>

\* new_segment of the loop body for the segment at 1-based position i.
NewSegment(d, segs, trans, i) ==
    IF IsTranslated(trans, i)
    THEN encode_text_segment(trans[i])
    ELSE Slice(d, segs[i].prefix_pos, segs[i].content_end)

\* The bytes copied between segment i and the next one.
GapAfter(d, segs, i) ==
    IF i < Len(segs) THEN Slice(d, segs[i].content_end, segs[i + 1].prefix_pos) ELSE <<>>

\* A variant of TailAfterLast that forgets the bytes after the last segment.
TailAfterLast_Dropped(d, segs) == <<>>

\* The bytes copied after the last segment.
TailAfterLast(d, segs) == Slice(d, segs[Len(segs)].content_end, Len(d))

\* new_data after the loop has run for segments 1..i.
RECURSIVE NewDataUpTo(_, _, _, _)
NewDataUpTo(d, segs, trans, i) ==
    IF i = 0 THEN Slice(d, 0, segs[1].prefix_pos)
    ELSE NewDataUpTo(d, segs, trans, i - 1)
             \o NewSegment(d, segs, trans, i) \o GapAfter(d, segs, i)

\* new_data as written to the output file.
NewData(d, segs, trans) == NewDataUpTo(d, segs, trans, Len(segs)) \o TailAfterLast(d, segs)

\* The rest of inject_translations after the scan: no segments, the original
\* is copied and False returned; an exception of the encoder is caught, nothing
\* is written and False returned; otherwise new_data is written, True returned.
InjectTranslations ==
    /\ pc = "inject"
    /\ routine = "inject_translations"
    /\ IF segments = <<>>
       THEN /\ output' = Written(data) /\ result' = "False"
       ELSE IF \E i \in 1..Len(segments) :
                   IsTranslated(translations, i) /\ encode_raises(translations[i])
       THEN /\ output' = NoOutput /\ result' = "False"
       ELSE /\ output' = Written(NewData(data, segments, translations))
            /\ result' = "True"
    /\ pc' = "done"
    /\ UNCHANGED <<data, routine, start_offset, pos, segments, stop, translations, buf, idx,
                   text_patterns>>
    /\ UNCHANGED textvars
    /\ UNCHANGED reportvars

(***************************************************************************)
(* extract_rtz_filtered.py: extract_segments, translate, and the           *)
(* fixed-slot encoder translate_and_patch.                                 *)
(***************************************************************************)
\* What the translation service may answer.
ServiceTexts ==
    { <<>>, <<65, 66>>, <<65, LF, 66>>, <<65, 66, 67, 68>>, Repeat(<<65>>, 201) }

\* The outcomes of one request: an answer, or an exception.
ServiceOutcomes ==
    {[ok |-> TRUE, text |-> t] : t \in ServiceTexts} \cup {[ok |-> FALSE, text |-> <<>>]}

\* The 0-based indices of the line breaks of text.
LinePositions(text) == {i \in 0..(Len(text) - 1) : text[i + 1] = LF}

\* One round of translate's re-insertion loop: the line break that stood at
\* 0-based index i of a text of total_len characters is put on the nearest
\* blank, hyphen or em dash at or before the same relative position.
\* int(i / total_len * n) is (i * n) \div total_len for texts shorter than 22
\* characters.
RECURSIVE BackToBreakable(_, _)
BackToBreakable(chars, p) ==
    IF p > 0 /\ chars[p + 1] \notin {32, 45, 8212}
    THEN BackToBreakable(chars, p - 1)
    ELSE p

Reinsert(chars, i, total_len) ==
    LET p == BackToBreakable(chars, (i * Len(chars)) \div total_len)
    IN  IF p > 0 THEN [chars EXCEPT ![p + 1] = LF] ELSE chars

RECURSIVE ReinsertAll(_, _, _)
ReinsertAll(chars, positions, total_len) ==
    IF positions = {} THEN chars
    ELSE LET i == CHOOSE x \in positions : \A y \in positions : x <= y
         IN  ReinsertAll(Reinsert(chars, i, total_len), positions \ {i}, total_len)

\* translate(text) when the service answers translated.
translate(text, translated) ==
    IF LinePositions(text) # {} /\ translated # <<>>
    THEN ReinsertAll(translated, LinePositions(text), Len(text))
    ELSE translated

\* A variant of NewSegmentAt whose validity flag ignores the text.
NewSegmentAt_Unclassified(d, p) ==
    [prefix_pos |-> p, content_start |-> p + 5, content_end |-> p + 5 + At(d, p + 4) * 2,
     raw |-> Decode(Slice(d, p + 5, p + 5 + At(d, p + 4) * 2)),
     clean |-> clean_text(Decode(Slice(d, p + 5, p + 5 + At(d, p + 4) * 2))),
     translation |-> <<>>, is_valid |-> FALSE]

\* A variant of NewSegmentAt that takes the declared count for a byte count.
NewSegmentAt_ByteCount(d, p) ==
    [prefix_pos |-> p, content_start |-> p + 5, content_end |-> p + 5 + At(d, p + 4),
     raw |-> Decode(Slice(d, p + 5, p + 5 + At(d, p + 4) * 2)),
     clean |-> clean_text(Decode(Slice(d, p + 5, p + 5 + At(d, p + 4) * 2))),
     translation |-> <<>>,
     is_valid |-> is_valid_text(clean_text(Decode(Slice(d, p + 5, p + 5 + At(d, p + 4) * 2))))]

\* The Segment that extract_segments registers at offset p.
NewSegmentAt(d, p) ==
    LET L == At(d, p + 4)
        cs == p + 5
        ce == p + 5 + L * 2
        raw_str == Decode(Slice(d, cs, ce))
        clean == clean_text(raw_str)
    IN  [prefix_pos |-> p, content_start |-> cs, content_end |-> ce,
         raw |-> raw_str, clean |-> clean, translation |-> <<>>,
         is_valid |-> is_valid_text(clean)]

\* translate_and_patch is entered: the file is read into buf,
\* extract_segments(buf, start_offset) starts.
CallTranslateAndPatch ==
    /\ pc = "start"
    /\ \E o \in StartOffsets : start_offset' = o /\ pos' = o
    /\ routine' = "translate_and_patch"
    /\ pc' = "scan"
    /\ buf' = data
    /\ UNCHANGED <<data, segments, stop, translations, idx, output, result, text_patterns>>
    /\ UNCHANGED textvars
    /\ UNCHANGED reportvars

\* The control flow of one test of the loop condition of extract_segments
\* and, when it holds, of one run of the loop body: where the scan goes next
\* and whether the loop is left.
ExtractSegmentsControl ==
    /\ pc = "scan"
    /\ routine = "translate_and_patch"
    /\ IF pos + 5 > Len(data)
       THEN /\ stop' = "end" /\ pc' = "translate" /\ UNCHANGED pos
       ELSE IF Slice(data, pos, pos + 5) = TERMINATOR
       THEN /\ stop' = "terminator" /\ pc' = "translate" /\ UNCHANGED pos
       ELSE IF pos + 5 + At(data, pos + 4) * 2 > Len(data)
       THEN /\ stop' = "bounds" /\ pc' = "translate" /\ UNCHANGED pos
       ELSE /\ pos' = pos + 5 + At(data, pos + 4) * 2
            /\ UNCHANGED <<stop, pc>>

\* One test of the loop condition of extract_segments and, when it holds, one
\* run of the loop body: an iteration that stays in the loop has appended the
\* Segment of the offset it was at.
ExtractSegmentsStep ==
    /\ ExtractSegmentsControl
    /\ segments' = IF pc' = "scan" THEN Append(segments, NewSegmentAt(data, pos))
                                   ELSE segments
    /\ UNCHANGED <<data, routine, start_offset, translations, buf, idx, output, result,
                   text_patterns>>
    /\ UNCHANGED textvars
    /\ UNCHANGED reportvars

\* The translation loop of translate_and_patch: every valid segment gets
\* translate(seg.clean), which is the service's answer with the line breaks
\* put back, or seg.clean itself when the request fails.
TranslateSegments ==
    /\ pc = "translate"
    /\ routine = "translate_and_patch"
    /\ LET valid == {i \in 1..Len(segments) : segments[i].is_valid}
       IN  \E answer \in [valid -> ServiceOutcomes] :
               segments' = [i \in 1..Len(segments) |->
                   IF i \in valid
                   THEN [segments[i] EXCEPT !.translation =
                            IF answer[i].ok
                            THEN translate(segments[i].clean, answer[i].text)
                            ELSE segments[i].clean]
                   ELSE segments[i]]
    /\ pc' = "patch"
    /\ idx' = Len(segments)
    /\ UNCHANGED <<data, routine, start_offset, pos, stop, translations, buf, output, result,
                   text_patterns>>
    /\ UNCHANGED textvars
    /\ UNCHANGED reportvars

\* A variant of PadOrTruncate that pads with zero bytes.
PadOrTruncate_ZeroPad(new_raw, orig_len) ==
    IF Len(new_raw) < orig_len
    THEN new_raw \o Repeat(<<0, 0>>, (orig_len - Len(new_raw)) \div 2)
    ELSE Slice(new_raw, 0, orig_len)

\* A variant of PadOrTruncate that truncates and never pads.
PadOrTruncate_NoPad(new_raw, orig_len) == Slice(new_raw, 0, orig_len)

\* "Pad or truncate to fit": new_raw brought to orig_len bytes.
PadOrTruncate(new_raw, orig_len) ==
    IF Len(new_raw) < orig_len
    THEN new_raw \o Repeat(<<SPACE, 0>>, (orig_len - Len(new_raw)) \div 2)
    ELSE Slice(new_raw, 0, orig_len)

\* b[a:e] = repl on a bytearray: the slice is replaced, whatever its length.
Splice(b, a, e, repl) == Slice(b, 0, a) \o repl \o Slice(b, e, Len(b))

\* The body of the patch loop for one valid segment.
PatchSegment(b, seg) ==
    LET orig_len == seg.content_end - seg.content_start
        new_raw == PadOrTruncate(Encode(seg.translation), orig_len)
        new_units == Len(new_raw) \div 2
        b1 == [b EXCEPT ![seg.prefix_pos + 4 + 1] = new_units % 256]
    IN  Splice(b1, seg.content_start, seg.content_end, new_raw)

\* A variant of PatchStep that patches the segments that are not valid too.
PatchStep_AllSegments ==
    /\ pc = "patch"
    /\ routine = "translate_and_patch"
    /\ idx >= 1
    /\ buf' = PatchSegment(buf, segments[idx])
    /\ idx' = idx - 1
    /\ UNCHANGED <<data, routine, pc, start_offset, pos, segments, stop,
                   translations, output, result, text_patterns>>
    /\ UNCHANGED textvars
    /\ UNCHANGED reportvars

\* One round of "for seg in reversed(segments)".
PatchStep ==
    /\ pc = "patch"
    /\ routine = "translate_and_patch"
    /\ idx >= 1
    /\ buf' = IF segments[idx].is_valid THEN PatchSegment(buf, segments[idx]) ELSE buf
    /\ idx' = idx - 1
    /\ UNCHANGED <<data, routine, pc, start_offset, pos, segments, stop,
                   translations, output, result, text_patterns>>
    /\ UNCHANGED textvars
    /\ UNCHANGED reportvars

\* The patch loop is over: buf is written to <stem>_translated.
WriteTranslated ==
    /\ pc = "patch"
    /\ routine = "translate_and_patch"
    /\ idx = 0
    /\ output' = Written(buf)
    /\ pc' = "done"
    /\ UNCHANGED <<data, routine, start_offset, pos, segments, stop,
                   translations, buf, idx, result, text_patterns>>
    /\ UNCHANGED textvars
    /\ UNCHANGED reportvars

(***************************************************************************)
(* The exploratory scanners.  Their result dictionaries carry the offsets  *)
(* below under other keys (offset, text_pos, char_count, length) and the   *)
(* decoded text, which is Decode(data[content_start:content_end]).         *)
(***************************************************************************)
\* The largest declared unit count extract_text_segments accepts.
MaxCharCount == 100

\* The largest declared unit count the analyzers accept.
MaxTextLength == 200

\* How far before the terminator rtz_structure_analyzer starts its search.
SearchWindow == 5000

Triple(p, L) ==
    [prefix_pos |-> p, content_start |-> p + 5, content_end |-> p + 5 + L * 2]

\* "len(text.strip()) > 0 and any(c.isprintable() for c in text)"
LooksLikeText(text) ==
    Len(Strip(text)) > 0 /\ \E i \in 1..Len(text) : IsPrintable(text[i])

\* process_first_rtz.py: extract_text_segments(data) is entered.
CallExtractTextSegments ==
    /\ pc = "start"
    /\ routine' = "extract_text_segments"
    /\ pc' = "scan"
    /\ start_offset' = 0
    /\ pos' = 0
    /\ UNCHANGED <<data, segments, stop, translations, buf, idx, output, result, text_patterns>>
    /\ UNCHANGED textvars
    /\ UNCHANGED reportvars

\* Whether extract_text_segments registers a segment at offset p, which is
\* not at the terminator.
AcceptsAt(d, p) ==
    LET char_count == At(d, p + 4)
        text_end == p + 5 + char_count * 2
    IN  /\ ~(char_count = 0 \/ char_count > MaxCharCount)
        /\ ~(text_end > Len(d))
        /\ LooksLikeText(Decode(Slice(d, p + 5, text_end)))

\* A variant of ExtractTextSegmentsStep that stays at a rejected offset.
ExtractTextSegmentsStep_Stuck ==
    /\ pc = "scan"
    /\ routine = "extract_text_segments"
    /\ IF pos + 5 > Len(data)
       THEN /\ stop' = "end" /\ pc' = "done" /\ UNCHANGED <<pos, segments>>
       ELSE IF Slice(data, pos, pos + 5) = TERMINATOR
       THEN /\ stop' = "terminator" /\ pc' = "done" /\ UNCHANGED <<pos, segments>>
       ELSE IF AcceptsAt(data, pos)
       THEN /\ segments' = Append(segments, Triple(pos, At(data, pos + 4)))
            /\ pos' = pos + 5 + At(data, pos + 4) * 2
            /\ UNCHANGED <<stop, pc>>
       ELSE UNCHANGED <<pos, segments, stop, pc>>
    /\ UNCHANGED <<data, routine, start_offset, translations, buf, idx, output, result,
                   text_patterns>>
    /\ UNCHANGED textvars
    /\ UNCHANGED reportvars

\* One test of the loop condition of extract_text_segments and, when it
\* holds, one run of the loop body.
ExtractTextSegmentsStep ==
    /\ pc = "scan"
    /\ routine = "extract_text_segments"
    /\ IF pos + 5 > Len(data)
       THEN /\ stop' = "end" /\ pc' = "done" /\ UNCHANGED <<pos, segments>>
       ELSE IF Slice(data, pos, pos + 5) = TERMINATOR
       THEN /\ stop' = "terminator" /\ pc' = "done" /\ UNCHANGED <<pos, segments>>
       ELSE IF AcceptsAt(data, pos)
       THEN /\ segments' = Append(segments, Triple(pos, At(data, pos + 4)))
            /\ pos' = pos + 5 + At(data, pos + 4) * 2
            /\ UNCHANGED <<stop, pc>>
       ELSE /\ pos' = pos + 1
            /\ UNCHANGED <<segments, stop, pc>>
    /\ UNCHANGED <<data, routine, start_offset, translations, buf, idx, output, result,
                   text_patterns>>
    /\ UNCHANGED textvars
    /\ UNCHANGED reportvars

\* The text patterns of rtz_structure_analyzer's branch for a file without
\* terminator: every even offset i below len(data) - 10 that holds a printable
\* ASCII code unit and whose next 40 bytes decode to more than five printable
\* characters not starting with a full stop.
TextPatternAt(d, i) ==
    LET text == Decode(Slice(d, i, i + 40))
        clean == Strip(SelectChars(text, [k \in 1..Len(text) |-> IsPrintable(text[k])]))
    IN  [position |-> i, text |-> Slice(clean, 0, 30),
         found |-> /\ At(d, i + 1) = 0 /\ At(d, i) >= 32 /\ At(d, i) <= 126
                   /\ Len(clean) > 5 /\ clean[1] # 46]

TextPatterns(d) ==
    LET F[i \in 0..Max(0, Len(d) - 10)] ==
            IF i = 0 THEN <<>>
            ELSE IF (i - 1) % 2 = 0 /\ TextPatternAt(d, i - 1).found
                 THEN Append(F[i - 1], [position |-> i - 1, text |-> TextPatternAt(d, i - 1).text])
                 ELSE F[i - 1]
    IN  F[Max(0, Len(d) - 10)]

\* rtz_structure_analyzer.py: find_text_segments(file_path) is entered.  With
\* a terminator in the file the search loop starts; without, the text
\* patterns are returned.
CallAnalyzer ==
    /\ pc = "start"
    /\ routine' = "rtz_structure_analyzer"
    /\ LET terminator_pos == Find(data, TERMINATOR)
       IN  IF terminator_pos # -1
           THEN /\ pc' = "scan"
                /\ start_offset' = Max(0, terminator_pos - SearchWindow)
                /\ pos' = Max(0, terminator_pos - SearchWindow)
                /\ UNCHANGED text_patterns
           ELSE /\ pc' = "done"
                /\ text_patterns' = TextPatterns(data)
                /\ UNCHANGED <<start_offset, pos>>
    /\ UNCHANGED <<data, segments, stop, translations, buf, idx, output, result>>
    /\ UNCHANGED textvars
    /\ UNCHANGED reportvars

\* Whether rtz_structure_analyzer registers a segment at offset p.
AnalyzerAcceptsAt(d, p) ==
    /\ p + 5 < Len(d)
    /\ At(d, p + 4) >= 1 /\ At(d, p + 4) <= MaxTextLength
    /\ p + 5 + At(d, p + 4) * 2 <= Len(d)
    /\ LooksLikeText(Decode(Slice(d, p + 5, p + 5 + At(d, p + 4) * 2)))

\* One test of the loop condition of rtz_structure_analyzer's search and,
\* when it holds, one run of the loop body.
AnalyzerStep ==
    /\ pc = "scan"
    /\ routine = "rtz_structure_analyzer"
    /\ IF ~(pos < Find(data, TERMINATOR) - 5)
       THEN /\ stop' = "end" /\ pc' = "done" /\ UNCHANGED <<pos, segments>>
       ELSE /\ segments' = IF AnalyzerAcceptsAt(data, pos)
                           THEN Append(segments, Triple(pos, At(data, pos + 4)))
                           ELSE segments
            /\ pos' = pos + 1
            /\ UNCHANGED <<stop, pc>>
    /\ UNCHANGED <<data, routine, start_offset, translations, buf, idx, output, result,
                   text_patterns>>
    /\ UNCHANGED textvars
    /\ UNCHANGED reportvars

\* is_japanese_text of decompress_fighter_info.py.
is_japanese_text_fi(text) ==
    IF text = <<>> \/ Len(Strip(text)) < 2 THEN FALSE
    ELSE LET total_chars == Cardinality({i \in 1..Len(text) : IsPrintable(text[i])})
             japanese_chars == Cardinality({i \in 1..Len(text) :
                                   IsPrintable(text[i]) /\ IsJapaneseChar(text[i])})
         IN  IF total_chars = 0 THEN FALSE
             ELSE 10 * japanese_chars >= 3 * total_chars

\* character_terms of contains_character_terms, each lowered as the code
\* lowers it.
character_terms ==
    { <<12461, 12515, 12521, 12463, 12479, 12540>>,
      <<12501, 12449, 12452, 12479, 12540>>,
      <<12503, 12524, 12452, 12516, 12540>>,
      <<36984, 25163>>,
      <<21517, 21069>>,
      <<12461, 12515, 12521>>,
      <<12463, 12521, 12531>>,
      <<36984, 25246>>,
      <<27770, 23450>>,
      <<30906, 35469>>,
      <<12379, 12435, 12383, 12367>>,
      <<12369, 12387, 12390, 12356>>,
      <<12363, 12367, 12395, 12435>>,
      <<12450, 12452, 12481>>,
      <<12459, 12512, 12452>>,
      <<12511, 12469, 12461>>,
      <<12459, 12452>>,
      <<20808, 23566>>,
      <<12379, 12435, 12393, 12358>>,
      <<99, 104, 97, 114, 97, 99, 116, 101, 114>>,
      <<102, 105, 103, 104, 116, 101, 114>>,
      <<112, 108, 97, 121, 101, 114>>,
      <<110, 97, 109, 101>>,
      <<99, 108, 97, 110>>,
      <<115, 101, 108, 101, 99, 116>>,
      <<99, 111, 110, 102, 105, 114, 109>>,
      <<97, 105, 99, 104, 105>>,
      <<107, 97, 109, 117, 105>>,
      <<109, 105, 115, 97, 107, 105>>,
      <<107, 97, 105>>,
      <<12508, 12479, 12531>>,
      <<12513, 12491, 12517, 12540>>,
      <<30011, 38754>>,
      <<12364, 12417, 12435>>,
      <<12412, 12383, 12435>>,
      <<12417, 12395, 12421, 12540>> }

contains_character_terms(text) ==
    LET text_lower == Lower(text)
    IN  \E term \in character_terms : Contains(text_lower, term)

\* Whether extract_text_segments_from_decompressed registers a segment at
\* offset p.
DecompressedAcceptsAt(d, p) ==
    /\ p + 5 <= Len(d)
    /\ At(d, p + 4) >= 1 /\ At(d, p + 4) <= MaxTextLength
    /\ p + 5 + At(d, p + 4) * 2 <= Len(d)
    /\ LET text == Decode(Slice(d, p + 5, p + 5 + At(d, p + 4) * 2))
           Kept(c) == IsPrintable(c) \/ c \in {10, 13, 9, DAGGER}
           clean == Strip(SelectChars(text, [k \in 1..Len(text) |-> Kept(text[k])]))
       IN  /\ Len(clean) >= 2
           /\ \/ is_japanese_text_fi(clean)
              \/ contains_character_terms(clean)
              \/ \E i \in 1..Len(clean) : IsAlpha(clean[i])

\* The offset below which extract_text_segments_from_decompressed searches.
SearchEnd(d) == IF Find(d, TERMINATOR) # -1 THEN Find(d, TERMINATOR) ELSE Len(d)

\* decompress_fighter_info.py: extract_text_segments_from_decompressed(data)
\* is entered.
CallDecompressed ==
    /\ pc = "start"
    /\ routine' = "extract_text_segments_from_decompressed"
    /\ pc' = "scan"
    /\ start_offset' = 0
    /\ pos' = 0
    /\ UNCHANGED <<data, segments, stop, translations, buf, idx, output, result, text_patterns>>
    /\ UNCHANGED textvars
    /\ UNCHANGED reportvars

\* One test of the loop condition of extract_text_segments_from_decompressed
\* and, when it holds, one run of the loop body.
DecompressedStep ==
    /\ pc = "scan"
    /\ routine = "extract_text_segments_from_decompressed"
    /\ IF ~(pos < SearchEnd(data) - 5)
       THEN /\ stop' = "end" /\ pc' = "done" /\ UNCHANGED <<pos, segments>>
       ELSE IF DecompressedAcceptsAt(data, pos)
       THEN /\ segments' = Append(segments, Triple(pos, At(data, pos + 4)))
            /\ pos' = pos + 5 + At(data, pos + 4) * 2
            /\ UNCHANGED <<stop, pc>>
       ELSE /\ pos' = pos + 1
            /\ UNCHANGED <<segments, stop, pc>>
    /\ UNCHANGED <<data, routine, start_offset, translations, buf, idx, output, result,
                   text_patterns>>
    /\ UNCHANGED textvars
    /\ UNCHANGED reportvars

(***************************************************************************)
(* The scanners as functions of the buffer and the start offset, and the   *)
(* extraction report of process_tutorials.py.                              *)
(***************************************************************************)
\* A variant of find_text_segments that takes a declared length of zero for a
\* rejected offset and goes on one byte further.
RECURSIVE find_text_segments_SkipEmpty(_, _)
find_text_segments_SkipEmpty(d, p) ==
    IF p + 5 > Len(d) THEN <<>>
    ELSE IF Slice(d, p, p + 5) = TERMINATOR THEN <<>>
    ELSE IF At(d, p + 4) = 0 THEN find_text_segments_SkipEmpty(d, p + 1)
    ELSE IF p + 5 + At(d, p + 4) * 2 > Len(d) THEN <<>>
    ELSE <<Triple(p, At(d, p + 4))>>
             \o find_text_segments_SkipEmpty(d, p + 5 + At(d, p + 4) * 2)

\* RTZInjector.find_text_segments(data, start_offset): the list it returns.
RECURSIVE find_text_segments(_, _)
find_text_segments(d, p) ==
    IF p + 5 > Len(d) THEN <<>>
    ELSE IF Slice(d, p, p + 5) = TERMINATOR THEN <<>>
    ELSE LET length == At(d, p + 4)
             byte_length == length * 2
             content_start == p + 5
             content_end == content_start + byte_length
         IN  IF content_end > Len(d) THEN <<>>
             ELSE <<[prefix_pos |-> p, content_start |-> content_start,
                     content_end |-> content_end]>>
                      \o find_text_segments(d, content_end)

\* extract_segments(data, start_offset): the list it returns.
RECURSIVE extract_segments(_, _)
extract_segments(d, p) ==
    IF p + 5 > Len(d) THEN <<>>
    ELSE IF Slice(d, p, p + 5) = TERMINATOR THEN <<>>
    ELSE IF p + 5 + At(d, p + 4) * 2 > Len(d) THEN <<>>
    ELSE <<NewSegmentAt(d, p)>> \o extract_segments(d, p + 5 + At(d, p + 4) * 2)

\* "s.is_valid" of extract_only's filter.
IsValidSegment(seg) == seg.is_valid

\* extract_only(input_file, start_offset): the valid segments, which it prints
\* as "[i] repr(seg.clean)" with i counting from 1.
extract_only(d, p) == SelectSeq(extract_segments(d, p), IsValidSegment)

\* Whether process_single_tutorial keeps the printed text of a valid segment
\* and create_summary_report writes a row for it: the text between the
\* quotation marks is not blank.  (The strings of the model hold no quotation
\* mark, so the printed text is blank exactly when seg.clean is.)
HasReportedText(seg) == Strip(seg.clean) # <<>>

\* The value create_summary_report gives segment_counter before its loops.
FirstSegmentId == 1

\* process_tutorials.py for a directory that holds the one file data:
\* process_single_tutorial runs extract_only at offset 0x0 and collects the
\* printed texts, create_summary_report writes one row per text with
\* segment_id = segment_counter, counted up from FirstSegmentId.  A row is
\* modelled by its segment_id and by the offset of the segment its text was
\* read from; the text itself is left out.
ProcessTutorials ==
    /\ pc = "start"
    /\ routine' = "process_tutorials"
    /\ LET reported == SelectSeq(extract_only(data, 0), HasReportedText)
       IN  csv_rows' = [k \in 1..Len(reported) |->
                           [segment_id |-> FirstSegmentId + k - 1,
                            prefix_pos |-> reported[k].prefix_pos]]
    /\ pc' = "done"
    /\ UNCHANGED <<data, start_offset, pos, segments, stop, translations, buf, idx, output,
                   result, text_patterns>>
    /\ UNCHANGED textvars

Next ==
    \/ CallInjectTranslations
    \/ FindTextSegmentsStep
    \/ InjectTranslations
    \/ CallTranslateAndPatch
    \/ ExtractSegmentsStep
    \/ TranslateSegments
    \/ PatchStep
    \/ WriteTranslated
    \/ CallExtractTextSegments
    \/ ExtractTextSegmentsStep
    \/ CallAnalyzer
    \/ AnalyzerStep
    \/ CallDecompressed
    \/ DecompressedStep
    \/ ProcessTutorials

Spec == Init /\ [][Next]_vars

\* The scans are sequential loops: a loop that can take its next iteration
\* takes it.  An iteration of extract_segments is possible exactly when its
\* control flow is, and every iteration changes pc or pos, so the fairness of
\* that loop is stated on ExtractSegmentsControl and these two variables.
FairSpec ==
    /\ Spec
    /\ WF_<<pc, pos>>(ExtractSegmentsControl)
    /\ WF_vars(ExtractTextSegmentsStep)

(***************************************************************************)
(* The normalizers and the classifier taken alone, each applied to a       *)
(* string drawn from a bounded set.                                        *)
(***************************************************************************)
\* A string is the concatenation of at most MaxTokens tokens.
MaxTokens == 3

\* The pieces the strings are made of: the parts of tags and of ruby markup,
\* a digit, a hexadecimal letter, the newline marker, a line break, a blank,
\* a kana, a sentence end, a path and a game term.
Tokens ==
    { <<123, 36>>, <<125>>, <<123, 36, 125>>, <<49>>, <<70>>,
      <<DAGGER>>, <<LF>>, <<SPACE>>,
      <<60, 124, 12354, 124>>, <<124, 62>>,
      <<12354>>, <<12290>>, <<47, 97, 47>> }

\* The strings of at most n tokens.
RECURSIVE TokenTexts(_)
TokenTexts(n) ==
    IF n = 0 THEN {<<>>}
    ELSE LET shorter == TokenTexts(n - 1)
         IN  shorter \cup {t \o k : t \in shorter, k \in Tokens}

InputTexts == TokenTexts(MaxTokens)

\* The game terms appended to a classified string: 'card' and 'ガード'.
AppendedTerms == { <<99, 97, 114, 100>>, <<12460, 12540, 12489>> }

TextInit ==
    /\ in_text \in InputTexts
    /\ untrimmed = <<>>
    /\ out_text = <<>>
    /\ verdict = <<>>
    /\ data = <<>>
    /\ routine = ""
    /\ pc = "start"
    /\ start_offset = 0
    /\ pos = 0
    /\ segments = <<>>
    /\ stop = ""
    /\ translations = <<>>
    /\ buf = <<>>
    /\ idx = 0
    /\ output = NoOutput
    /\ result = ""
    /\ text_patterns = <<>>
    /\ csv_rows = <<>>

\* clean_text(in_text) of extract_rtz_filtered.py.
CleanText ==
    /\ pc = "start"
    /\ routine' = "clean_text"
    /\ untrimmed' = clean_text_steps(in_text)
    /\ out_text' = clean_text(in_text)
    /\ pc' = "done"
    /\ UNCHANGED <<in_text, verdict, data, start_offset, pos, segments, stop,
                   translations, buf, idx, output, result, text_patterns>>
    /\ UNCHANGED reportvars

\* VanguardTranslator.clean_japanese_text(in_text).
CleanJapaneseText ==
    /\ pc = "start"
    /\ routine' = "clean_japanese_text"
    /\ untrimmed' = IF in_text = <<>> THEN <<>> ELSE clean_japanese_text_steps(in_text)
    /\ out_text' = clean_japanese_text(in_text)
    /\ pc' = "done"
    /\ UNCHANGED <<in_text, verdict, data, start_offset, pos, segments, stop,
                   translations, buf, idx, output, result, text_patterns>>
    /\ UNCHANGED reportvars

\* extract_segments's treatment of a decoded string: clean = clean_text(raw_str),
\* then is_valid is computed from clean.
Classify ==
    /\ pc = "start"
    /\ routine' = "classify"
    /\ untrimmed' = clean_text_steps(in_text)
    /\ out_text' = clean_text(in_text)
    /\ verdict' = <<[text |-> clean_text(in_text),
                     is_valid |-> is_valid_text(clean_text(in_text))]>>
    /\ pc' = "classified"
    /\ UNCHANGED <<in_text, data, start_offset, pos, segments, stop,
                   translations, buf, idx, output, result, text_patterns>>
    /\ UNCHANGED reportvars

\* The filter criteria applied to the classified string with a game term
\* appended.
ClassifyWithTerm ==
    /\ pc = "classified"
    /\ routine = "classify"
    /\ \E term \in AppendedTerms :
           verdict' = Append(verdict, [text |-> out_text \o term,
                                       is_valid |-> is_valid_text(out_text \o term)])
    /\ pc' = "done"
    /\ UNCHANGED <<in_text, untrimmed, out_text, data, routine, start_offset, pos, segments,
                   stop, translations, buf, idx, output, result, text_patterns>>
    /\ UNCHANGED reportvars

TextNext ==
    \/ CleanText
    \/ CleanJapaneseText
    \/ Classify
    \/ ClassifyWithTerm

TextSpec == TextInit /\ [][TextNext]_vars

(***************************************************************************)
(* Properties.                                                             *)
(***************************************************************************)
Finished(r) == pc = "done" /\ routine = r

\* The offset of the first occurrence of the sentinel in the input, or -1.
SentinelAt == Find(data, TERMINATOR)

\* The offset in the injector's output of the record that stands for segment i.
OutOffset(i) ==
    Len(NewDataUpTo(data, segments, translations, i - 1))

\* The last n bytes of bs.
Suffix(bs, n) == Slice(bs, Len(bs) - n, Len(bs))

\* C1: when inject_translations has run with a translation map that is empty
\* or maps every key to the empty text, the output file holds exactly the
\* bytes of the input file.
C1_RoundTripIdentity ==
    (/\ Finished("inject_translations")
     /\ \A k \in DOMAIN translations : translations[k] = <<>>)
        => (output.written /\ output.bytes = data)

\* C1's case: a run over a file with segments and bytes after the last one,
\* under a map whose keys all hold the empty text.
C1_Witness ==
    /\ Finished("inject_translations")
    /\ DOMAIN translations # {}
    /\ \A k \in DOMAIN translations : translations[k] = <<>>
    /\ Len(segments) >= 1
    /\ segments[Len(segments)].content_end < Len(data)
    /\ result = "True"

\* C2: in both encoders, when the input holds the sentinel, the output file
\* ends with the sentinel and all input bytes after it, byte for byte.
C2_SentinelPreserved ==
    (/\ Finished("inject_translations") \/ Finished("translate_and_patch")
     /\ SentinelAt # -1)
        => /\ output.written
           /\ Len(output.bytes) >= Len(data) - SentinelAt
           /\ Suffix(output.bytes, Len(data) - SentinelAt) = Slice(data, SentinelAt, Len(data))

\* C3: in translate_and_patch, once a valid segment is patched, the span its
\* length byte declares in the working buffer is the span of the input
\* segment, and the buffer keeps the length of the input, whatever the length
\* of the translation.
C3_FixedSlot ==
    (routine = "translate_and_patch" /\ pc \in {"patch", "done"})
        => /\ Len(buf) = Len(data)
           /\ \A i \in (idx + 1)..Len(segments) :
                  segments[i].is_valid =>
                      2 * At(buf, segments[i].prefix_pos + 4)
                          = segments[i].content_end - segments[i].content_start
           /\ pc = "done" => output.bytes = buf

\* C3's case: the patched file is written and held two valid segments, one
\* with a translation shorter and one with a translation longer than its slot.
C3_Witness ==
    /\ Finished("translate_and_patch")
    /\ \E i, j \in 1..Len(segments) :
           /\ segments[i].is_valid /\ segments[j].is_valid
           /\ Len(Encode(segments[i].translation))
                  < segments[i].content_end - segments[i].content_start
           /\ Len(Encode(segments[j].translation))
                  > segments[j].content_end - segments[j].content_start

\* C4: at an offset that is not the sentinel and whose length byte is 0 or
\* above 200, extract_segments, RTZInjector.find_text_segments and
\* extract_text_segments register nothing and move the cursor on by one byte.
C4_RejectAndAdvance ==
    [][(/\ pc = "scan"
        /\ routine \in {"translate_and_patch", "inject_translations", "extract_text_segments"}
        /\ pos + 5 <= Len(data)
        /\ Slice(data, pos, pos + 5) # TERMINATOR
        /\ At(data, pos + 4) \notin 1..MaxTextLength)
           => (segments' = segments /\ pos' = pos + 1 /\ pc' = "scan")]_vars

\* C5: the segments of a scan result are ordered and do not overlap: each
\* segment ends at or before the offset where the next one starts.
C5_NonOverlapping ==
    routine \in {"translate_and_patch", "extract_text_segments", "rtz_structure_analyzer"}
        => \A i \in 1..(Len(segments) - 1) :
               segments[i].content_end <= segments[i + 1].prefix_pos

\* C6: when the input holds the sentinel at or after the start offset, every
\* registered segment starts strictly before the first occurrence of the
\* sentinel.
C6_NoSegmentAtOrAfterSentinel ==
    (/\ routine \in {"translate_and_patch", "extract_text_segments_from_decompressed"}
     /\ SentinelAt # -1
     /\ start_offset <= SentinelAt)
        => \A i \in 1..Len(segments) : segments[i].prefix_pos < SentinelAt

\* Whether the scan cursor stands on a candidate whose content window ends
\* beyond the buffer: the offset is not the sentinel and the scanner computes
\* a content_end for its length byte (extract_text_segments does so for
\* length bytes 1..100, the other two for every length byte).
OverflowingCandidate ==
    /\ pc = "scan"
    /\ routine \in {"translate_and_patch", "inject_translations", "extract_text_segments"}
    /\ pos + 5 <= Len(data)
    /\ Slice(data, pos, pos + 5) # TERMINATOR
    /\ routine = "extract_text_segments" => At(data, pos + 4) \in 1..MaxCharCount
    /\ pos + 5 + At(data, pos + 4) * 2 > Len(data)

\* C7: at a candidate whose content_end exceeds the buffer length the scan
\* loop ends there, and the segments registered before stay in the result.
C7_HaltOnOverflow ==
    [][OverflowingCandidate => (pc' # "scan" /\ segments' = segments /\ pos' = pos)]_vars

\* C8: the four metadata bytes of every record, translated or not, are in the
\* encoder's output what they are in the input.
C8_MetadataPreserved ==
    /\ (Finished("inject_translations") /\ output.written)
           => \A i \in 1..Len(segments) :
                  Slice(output.bytes, OutOffset(i), OutOffset(i) + 4)
                      = Slice(data, segments[i].prefix_pos, segments[i].prefix_pos + 4)
    /\ Finished("translate_and_patch")
           => \A i \in 1..Len(segments) :
                  Slice(output.bytes, segments[i].prefix_pos, segments[i].prefix_pos + 4)
                      = Slice(data, segments[i].prefix_pos, segments[i].prefix_pos + 4)

\* C9: a translation of more than 200 code units is truncated to fit: the
\* encoder writes an output, and the record of the segment has a length byte
\* in 1..200 and a payload that is a prefix of the encoded translation.
C9_TruncatedToFit ==
    /\ Finished("inject_translations")
           => \A i \in 1..Len(segments) :
                  (IsTranslated(translations, i) /\ Len(translations[i]) > MaxTextLength)
                      => /\ output.written
                         /\ At(output.bytes, OutOffset(i) + 4) \in 1..MaxTextLength
                         /\ Slice(output.bytes, OutOffset(i) + 5,
                                  OutOffset(i) + 5 + 2 * At(output.bytes, OutOffset(i) + 4))
                                = Slice(Encode(ReplaceChar(translations[i], LF, DAGGER)), 0,
                                        2 * At(output.bytes, OutOffset(i) + 4))
    /\ Finished("translate_and_patch")
           => \A i \in 1..Len(segments) :
                  (segments[i].is_valid /\ Len(segments[i].translation) > MaxTextLength)
                      => /\ At(output.bytes, segments[i].prefix_pos + 4) \in 1..MaxTextLength
                         /\ Slice(output.bytes, segments[i].content_start, segments[i].content_end)
                                = Slice(Encode(segments[i].translation), 0,
                                        segments[i].content_end - segments[i].content_start)

\* C10: a segment whose translation is the empty text keeps its original
\* bytes in the output of either encoder.
C10_EmptyKeepsOriginal ==
    /\ (Finished("inject_translations") /\ output.written)
           => \A i \in 1..Len(segments) :
                  (i \in DOMAIN translations /\ translations[i] = <<>>)
                      => Slice(output.bytes, OutOffset(i),
                               OutOffset(i) + segments[i].content_end - segments[i].prefix_pos)
                             = Slice(data, segments[i].prefix_pos, segments[i].content_end)
    /\ Finished("translate_and_patch")
           => \A i \in 1..Len(segments) :
                  (segments[i].is_valid /\ segments[i].translation = <<>>)
                      => Slice(output.bytes, segments[i].prefix_pos, segments[i].content_end)
                             = Slice(data, segments[i].prefix_pos, segments[i].content_end)

\* C11: every run of inject_translations, whatever the buffer and the
\* translation map, ends with an output file written.
C11_AlwaysAnOutput ==
    Finished("inject_translations") => output.written

\* The record the translation map asks for in place of segment i: the encoded
\* text of key i when the key is present with a non-empty text, the original
\* header and payload otherwise.
RecordByKey(i) ==
    IF i \in DOMAIN translations /\ translations[i] # <<>>
    THEN <<0, 0, 0, 0, Len(translations[i])>>
             \o Encode(ReplaceChar(translations[i], LF, DAGGER))
    ELSE Slice(data, segments[i].prefix_pos, segments[i].content_end)

\* C12: the translation map is keyed by the 1-based index of the segment in
\* scan order: after a run over a buffer with segments, the output holds, for
\* each segment in order, the record of its key when the key is present with a
\* non-empty text and the segment's original bytes otherwise.
C12_KeyedByScanIndex ==
    (Finished("inject_translations") /\ segments # <<>>)
        => /\ output.written
           /\ output.bytes =
                  Slice(data, 0, segments[1].prefix_pos)
                      \o Flatten([i \in 1..Len(segments) |->
                                     RecordByKey(i) \o GapAfter(data, segments, i)])
                      \o Slice(data, segments[Len(segments)].content_end, Len(data))

\* C13: after a run of inject_translations over a buffer with segments, the
\* output starts with the input bytes before the first segment, ends with the
\* input bytes after the last segment, and holds the original header and
\* payload of every segment without a translation, at the offset the records
\* before it leave.
C13_FrameCopied ==
    (Finished("inject_translations") /\ segments # <<>>)
        => /\ output.written
           /\ Slice(output.bytes, 0, segments[1].prefix_pos)
                  = Slice(data, 0, segments[1].prefix_pos)
           /\ Len(output.bytes) >= Len(data) - segments[Len(segments)].content_end
           /\ Suffix(output.bytes, Len(data) - segments[Len(segments)].content_end)
                  = Slice(data, segments[Len(segments)].content_end, Len(data))
           /\ \A i \in 1..Len(segments) :
                  ~(i \in DOMAIN translations /\ translations[i] # <<>>)
                      => Slice(output.bytes, OutOffset(i),
                               OutOffset(i) + segments[i].content_end - segments[i].prefix_pos)
                             = Slice(data, segments[i].prefix_pos, segments[i].content_end)

\* The characters of text that count for the script ratio: what is left of
\* it without whitespace, basic punctuation and line markers.
Counted(t) == SelectChars(t, [i \in 1..Len(t) |-> ~IsPunctOrSpace(t[i])])

\* The number of printable counted characters of t, and those of them in the
\* source script.
TotalChars(t) == Cardinality({i \in 1..Len(Counted(t)) : IsPrintable(Counted(t)[i])})
ScriptChars(t) ==
    Cardinality({i \in 1..Len(Counted(t)) :
                    IsPrintable(Counted(t)[i]) /\ IsJapaneseChar(Counted(t)[i])})

\* The source-script ratio of t is at least 0.30.
RatioAtLeast30(t) == TotalChars(t) > 0 /\ 10 * ScriptChars(t) >= 3 * TotalChars(t)

\* The three conditions of the classifier's policy.
Policy(t) ==
    /\ Len(Counted(t)) >= 3
    /\ ~is_likely_filepath_or_junk(t)
    /\ \/ RatioAtLeast30(t)
       \/ contains_game_terms(t)
       \/ has_dialogue_patterns(t)

\* C14: the classifier's verdict on a string is valid exactly when the string
\* has at least 3 characters left without whitespace, basic punctuation and
\* line markers, matches no junk signature, and has a script ratio of at least
\* 0.30 or a game term or a sentence pattern.
C14_ValidIffPolicy ==
    routine = "classify"
        => \A i \in 1..Len(verdict) : verdict[i].is_valid <=> Policy(verdict[i].text)

\* C15 as stated: a string the classifier rejects and whose script ratio is
\* below 0.30 is valid once a game term is appended.
C15_TermFlips ==
    (/\ Finished("classify")
     /\ ~verdict[1].is_valid
     /\ ~RatioAtLeast30(verdict[1].text))
        => verdict[2].is_valid

\* C15, amended: a string the classifier rejects and whose script ratio is
\* below 0.30 is valid once a game term is appended, unless the string with
\* the term appended matches a junk signature.
C15_TermFlipsUnlessJunk ==
    (/\ Finished("classify")
     /\ ~verdict[1].is_valid
     /\ ~RatioAtLeast30(verdict[1].text)
     /\ ~is_likely_filepath_or_junk(verdict[2].text))
        => verdict[2].is_valid

\* C15's case: a rejected non-empty string of low script ratio was classified
\* again with a term appended, matched no junk signature and came out valid.
C15_Witness ==
    /\ Finished("classify")
    /\ verdict[1].text # <<>>
    /\ ~verdict[1].is_valid
    /\ ~RatioAtLeast30(verdict[1].text)
    /\ ~is_likely_filepath_or_junk(verdict[2].text)
    /\ verdict[2].is_valid

\* The number of occurrences of the character c in t.
CountOf(t, c) == Cardinality({i \in 1..Len(t) : t[i] = c})

\* C19: in the normalizer's text before its ends are trimmed there are as many
\* line breaks as the input has newline markers and line breaks.
C19_LineBreaksKept ==
    (pc = "done" /\ routine \in {"clean_text", "clean_japanese_text"})
        => CountOf(untrimmed, LF) = CountOf(in_text, DAGGER) + CountOf(in_text, LF)

\* A tag starts at index i of t: '{$', then hexadecimal digits, then '}'.
TagAt(t, i) ==
    /\ i + 2 <= Len(t)
    /\ t[i] = 123 /\ t[i + 1] = 36
    /\ \E j \in (i + 2)..Len(t) :
           /\ t[j] = 125
           /\ \A k \in (i + 2)..(j - 1) : IsHexDigit(t[k])

\* C20: the normalized text holds no tag of the form {$...}.
C20_NoTagLeft ==
    (pc = "done" /\ routine \in {"clean_text", "clean_japanese_text"})
        => \A i \in 1..Len(out_text) : ~TagAt(out_text, i)

\* The offsets a scan of d from offset p registers, as a function of d and p
\* alone: the records that follow one another from p, up to the sentinel, the
\* end of the buffer or a record that does not fit.
RECURSIVE RecordsFrom(_, _)
RecordsFrom(d, p) ==
    IF \/ p + 5 > Len(d)
       \/ Slice(d, p, p + 5) = TERMINATOR
       \/ p + 5 + 2 * At(d, p + 4) > Len(d)
    THEN <<>>
    ELSE <<p>> \o RecordsFrom(d, p + 5 + 2 * At(d, p + 4))

C17_PaddedWithSpaces ==
    Finished("translate_and_patch")
        => \A i \in 1..Len(segments) :
               LET enc == Encode(segments[i].translation)
                   span == segments[i].content_end - segments[i].content_start
               IN  (segments[i].is_valid /\ Len(enc) < span)
                       => /\ Slice(output.bytes, segments[i].content_start,
                                   segments[i].content_start + Len(enc)) = enc
                          /\ \A k \in 0..((span - Len(enc)) \div 2 - 1) :
                                 /\ At(output.bytes, segments[i].content_start + Len(enc) + 2 * k) = 32
                                 /\ At(output.bytes, segments[i].content_start + Len(enc) + 2 * k + 1) = 0
                          /\ Len(output.bytes) = Len(data)
                          /\ At(output.bytes, segments[i].prefix_pos + 4)
                                 = At(data, segments[i].prefix_pos + 4)

\* C17's case: a 2-character translation was patched into a valid 3-unit
\* segment, giving a 6-byte payload and the length byte 3.
C17_Witness ==
    /\ Finished("translate_and_patch")
    /\ \E i \in 1..Len(segments) :
           /\ segments[i].is_valid
           /\ segments[i].translation = <<65, 66>>
           /\ segments[i].content_end - segments[i].content_start = 6
           /\ Slice(output.bytes, segments[i].content_start, segments[i].content_end)
                  = <<65, 0, 66, 0, 32, 0>>
           /\ At(output.bytes, segments[i].prefix_pos + 4) = 3

\* C18: the payload written for a translated segment holds no line-feed code
\* unit, in translate_and_patch as in inject_translations.
C18_NoLineFeedWritten ==
    /\ Finished("translate_and_patch")
           => \A i \in 1..Len(segments) :
                  segments[i].is_valid
                      => \A k \in 0..((segments[i].content_end - segments[i].content_start) \div 2 - 1) :
                             ~(/\ At(output.bytes, segments[i].content_start + 2 * k) = LF
                               /\ At(output.bytes, segments[i].content_start + 2 * k + 1) = 0)
    /\ (Finished("inject_translations") /\ output.written)
           => \A i \in 1..Len(segments) :
                  IsTranslated(translations, i)
                      => \A k \in 0..(At(output.bytes, OutOffset(i) + 4) - 1) :
                             ~(/\ At(output.bytes, OutOffset(i) + 5 + 2 * k) = LF
                               /\ At(output.bytes, OutOffset(i) + 5 + 2 * k + 1) = 0)

\* C21: the byte sequence that was read and scanned is never changed by an
\* encoding run: the bytearray that translate_and_patch handed to
\* extract_segments still holds the bytes read from the input file at every
\* later point of the run.
C21_ScannedBufferUnchanged ==
    (routine = "translate_and_patch" /\ pc # "start") => buf = data

\* Whether offset p of d is one where a record could begin: five bytes are
\* there and are not the sentinel, the byte at p + 4 is in 1..200, the content
\* window lies within the buffer and the payload decodes to at least one
\* printable character.
PlausibleAt(d, p) ==
    /\ p + 5 <= Len(d)
    /\ Slice(d, p, p + 5) # TERMINATOR
    /\ At(d, p + 4) \in 1..MaxTextLength
    /\ p + 5 + 2 * At(d, p + 4) <= Len(d)
    /\ LET text == Decode(Slice(d, p + 5, p + 5 + 2 * At(d, p + 4)))
       IN  \E i \in 1..Len(text) : IsPrintable(text[i])

\* C22: when extract_text_segments or extract_text_segments_from_decompressed
\* takes a step of its scan at an offset where a record could begin, it
\* registers the segment of that offset and resumes the scan at content_end.
C22_RegistersPlausible ==
    [][(/\ pc = "scan"
        /\ routine \in {"extract_text_segments", "extract_text_segments_from_decompressed"}
        /\ PlausibleAt(data, pos))
          => (/\ segments' = Append(segments, Triple(pos, At(data, pos + 4)))
              /\ pos' = pos + 5 + 2 * At(data, pos + 4))]_vars

\* C23: during and after a scan of extract_segments or
\* RTZInjector.find_text_segments, from any start offset and on any buffer,
\* every registered segment has content_start = prefix_pos + 5 and
\* content_end = content_start + 2 * data[prefix_pos + 4] <= len(data), its
\* length byte lies inside the buffer, and the one indexed read of the loop
\* body, data[pos + 4], is made only when pos + 4 is an index of the buffer.
C23_SegmentsWithinBuffer ==
    (routine \in {"translate_and_patch", "inject_translations"} /\ pc # "start")
        => /\ \A i \in 1..Len(segments) :
                  /\ segments[i].prefix_pos >= start_offset
                  /\ segments[i].prefix_pos + 4 < Len(data)
                  /\ segments[i].content_start = segments[i].prefix_pos + 5
                  /\ segments[i].content_end
                         = segments[i].content_start + 2 * At(data, segments[i].prefix_pos + 4)
                  /\ segments[i].content_end <= Len(data)
           /\ pos >= start_offset
           /\ (pc = "scan" /\ pos + 5 <= Len(data)) => pos + 4 \in 0..(Len(data) - 1)
           /\ (pc # "scan" /\ stop = "end") => pos + 5 > Len(data)

\* C23's case: a scan of extract_segments from offset 1 has registered a
\* segment with a payload at that offset.
C23_Witness ==
    /\ routine = "translate_and_patch"
    /\ start_offset = 1
    /\ Len(segments) >= 1
    /\ segments[1].prefix_pos = 1
    /\ segments[1].content_end > segments[1].content_start

\* C24: every scan of extract_segments and of extract_text_segments ends: an
\* iteration that stays in the loop moves the scan position strictly forward
\* (by one byte when extract_text_segments rejects the offset, to content_end
\* when a segment is registered, a segment of declared length zero included),
\* an iteration at the sentinel or with fewer than five bytes left leaves the
\* loop, and a scan that has begun eventually is over.
C24_ScanTerminates ==
    /\ [][(pc = "scan" /\ routine \in {"translate_and_patch", "extract_text_segments"})
            => /\ pc' = "scan" => pos' > pos
               /\ (pc' = "scan" /\ Len(segments') > Len(segments))
                      => pos' = segments'[Len(segments')].content_end
               /\ (pc' = "scan" /\ segments' = segments) => pos' = pos + 1
               /\ (pos + 5 > Len(data) \/ Slice(data, pos, pos + 5) = TERMINATOR)
                      => (pc' # "scan" /\ pos' = pos)]_vars
    /\ (pc = "scan" /\ routine \in {"translate_and_patch", "extract_text_segments"})
           ~> (pc # "scan")

\* C24's case: extract_text_segments has ended at the end of the buffer after
\* it rejected the offset 0 and registered a segment further on.
C24_Witness ==
    /\ Finished("extract_text_segments")
    /\ stop = "end"
    /\ Len(segments) >= 1
    /\ segments[1].prefix_pos > 0
    /\ pos + 5 > Len(data)

\* Whether offset j lies in the payload span of a valid segment or is the
\* offset of its length byte.
InValidSlot(j) ==
    \E i \in 1..Len(segments) :
        /\ segments[i].is_valid
        /\ \/ j = segments[i].prefix_pos + 4
           \/ (segments[i].content_start <= j /\ j < segments[i].content_end)

\* C25: when translate_and_patch has written its output, every byte of the
\* output outside the payload span and the length byte of the valid segments
\* equals the byte at the same offset of the input, and the record of every
\* segment that is not valid is byte-identical to the input's.
C25_OnlyValidReplaced ==
    Finished("translate_and_patch")
        => /\ Len(output.bytes) = Len(data)
           /\ \A j \in 0..(Len(data) - 1) :
                  ~InValidSlot(j) => At(output.bytes, j) = At(data, j)
           /\ \A i \in 1..Len(segments) :
                  ~segments[i].is_valid
                      => Slice(output.bytes, segments[i].prefix_pos, segments[i].content_end)
                             = Slice(data, segments[i].prefix_pos, segments[i].content_end)

\* C25's case: the output was written for a buffer with a segment that is not
\* valid and has a payload, and with a valid segment whose payload was
\* replaced by other bytes.
C25_Witness ==
    /\ Finished("translate_and_patch")
    /\ \E i \in 1..Len(segments) :
           /\ ~segments[i].is_valid
           /\ segments[i].content_end > segments[i].content_start
    /\ \E i \in 1..Len(segments) :
           /\ segments[i].is_valid
           /\ Slice(output.bytes, segments[i].content_start, segments[i].content_end)
                  # Slice(data, segments[i].content_start, segments[i].content_end)

\* The number of UTF-16 code units of the translation of segment i after the
\* line breaks were replaced by the newline marker.
FlattenedUnits(i) == Len(Encode(ReplaceChar(translations[i], LF, DAGGER))) \div 2

\* By how many bytes the record emitted for segment i is longer than the
\* original record.
SizeChange(i) ==
    IF IsTranslated(translations, i)
    THEN 5 + 2 * FlattenedUnits(i) - (segments[i].content_end - segments[i].prefix_pos)
    ELSE 0

\* The sum of the size changes of the segments 1..i.
RECURSIVE ShiftUpTo(_)
ShiftUpTo(i) == IF i = 0 THEN 0 ELSE ShiftUpTo(i - 1) + SizeChange(i)

\* The number of segments that end at or before offset j of the input.
EndedBefore(j) == Cardinality({i \in 1..Len(segments) : segments[i].content_end <= j})

\* C26: after a run of inject_translations over a buffer with segments, every
\* translated segment stands in the output as a record of 5 + 2n bytes whose
\* length byte is n and whose payload is the flattened translation, n being
\* the number of UTF-16 code units of the translation after newline
\* flattening, and every input byte outside the translated records stands in
\* the output shifted by the size changes of the records before it.
C26_ResizedRecords ==
    (Finished("inject_translations") /\ segments # <<>>)
        => /\ output.written
           /\ Len(output.bytes) = Len(data) + ShiftUpTo(Len(segments))
           /\ \A i \in 1..Len(segments) :
                  IsTranslated(translations, i)
                      => LET at == segments[i].prefix_pos + ShiftUpTo(i - 1)
                         IN  /\ At(output.bytes, at + 4) = FlattenedUnits(i)
                             /\ Slice(output.bytes, at + 5, at + 5 + 2 * FlattenedUnits(i))
                                    = Encode(ReplaceChar(translations[i], LF, DAGGER))
           /\ \A j \in 0..(Len(data) - 1) :
                  (~\E i \in 1..Len(segments) :
                        /\ IsTranslated(translations, i)
                        /\ segments[i].prefix_pos <= j /\ j < segments[i].content_end)
                      => At(output.bytes, j + ShiftUpTo(EndedBefore(j))) = At(data, j)

\* The one-to-one orders of the positions 1..n.
Orders(n) == {f \in [1..n -> 1..n] : \A a, b \in 1..n : a # b => f[a] # f[b]}

\* The patch loop's body run for the segments of segs in the given order of
\* positions, on the buffer b.
RECURSIVE PatchInOrder(_, _, _)
PatchInOrder(b, segs, order) ==
    IF order = <<>> THEN b
    ELSE PatchInOrder(IF segs[Head(order)].is_valid
                      THEN PatchSegment(b, segs[Head(order)])
                      ELSE b,
                      segs, Tail(order))

\* The two assignments of the patch loop's body, each taken alone: w.kind
\* tells which one, w.seg the segment.
PatchWrite(b, w) ==
    LET new_raw == PadOrTruncate(Encode(w.seg.translation),
                                 w.seg.content_end - w.seg.content_start)
    IN  IF w.kind = "length"
        THEN [b EXCEPT ![w.seg.prefix_pos + 4 + 1] = (Len(new_raw) \div 2) % 256]
        ELSE Splice(b, w.seg.content_start, w.seg.content_end, new_raw)

\* The assignments ws[order[1]], ws[order[2]], ... done on b one after another.
RECURSIVE WritesInOrder(_, _, _)
WritesInOrder(b, ws, order) ==
    IF order = <<>> THEN b
    ELSE WritesInOrder(PatchWrite(b, ws[Head(order)]), ws, Tail(order))

\* C27: fixed-slot patching does not depend on the order: when
\* translate_and_patch has written its output, patching the input's bytes
\* segment by segment in any order of the segments gives the bytes written,
\* and for any two valid segments the four assignments of their two patches
\* (length byte and payload each), done in any order, give what patching the
\* one and then the other gives.
C27_OrderIndependent ==
    Finished("translate_and_patch")
        => /\ \A order \in Orders(Len(segments)) :
                  PatchInOrder(data, segments, order) = output.bytes
           /\ \A i, k \in 1..Len(segments) :
                  (i # k /\ segments[i].is_valid /\ segments[k].is_valid)
                      => LET ws == << [kind |-> "length", seg |-> segments[i]],
                                      [kind |-> "payload", seg |-> segments[i]],
                                      [kind |-> "length", seg |-> segments[k]],
                                      [kind |-> "payload", seg |-> segments[k]] >>
                         IN  \A order \in Orders(4) :
                                 WritesInOrder(data, ws, order)
                                     = PatchSegment(PatchSegment(data, segments[i]),
                                                    segments[k])

\* C27's case: the output was written after two valid segments were patched
\* with translations that differ from each other and from the original text.
C27_Witness ==
    /\ Finished("translate_and_patch")
    /\ Len(segments) = 2
    /\ segments[1].is_valid /\ segments[2].is_valid
    /\ segments[1].translation # segments[2].translation
    /\ output.bytes # data

\* C28: the id under which the extraction report records a text is the
\* 1-based position of that text's segment in the injector's scan of the same
\* file: every row of the translation CSV carries as segment_id the position,
\* in RTZInjector.find_text_segments(data), of the segment its text was read
\* from.
C28_IdIsInjectorPosition ==
    Finished("process_tutorials")
        => \A k \in 1..Len(csv_rows) :
               /\ csv_rows[k].segment_id <= Len(find_text_segments(data, 0))
               /\ find_text_segments(data, 0)[csv_rows[k].segment_id].prefix_pos
                      = csv_rows[k].prefix_pos

\* C29: encode, then scan, in resizing mode: when inject_translations has run
\* with a map whose translations are all 1..255 UTF-16 code units long,
\* RTZInjector.find_text_segments finds in the output as many segments as the
\* scan found in the input, and the payload of the i-th of them decodes, for
\* every translated segment i, to the translation with its line breaks
\* replaced by the newline marker.
C29_EncodeThenScan ==
    (/\ Finished("inject_translations")
     /\ \A k \in DOMAIN translations : FlattenedUnits(k) \in 1..255)
        => /\ output.written
           /\ Len(find_text_segments(output.bytes, 0)) = Len(segments)
           /\ \A i \in 1..Len(segments) :
                  IsTranslated(translations, i)
                      => Decode(Slice(output.bytes,
                                      find_text_segments(output.bytes, 0)[i].content_start,
                                      find_text_segments(output.bytes, 0)[i].content_end))
                             = ReplaceChar(translations[i], LF, DAGGER)

\* C29's case: the output was written for a buffer of two segments, the
\* first translated by a text with a line break that changes the size of its
\* record, the second not translated.
C29_Witness ==
    /\ Finished("inject_translations")
    /\ \A k \in DOMAIN translations : FlattenedUnits(k) \in 1..255
    /\ output.written
    /\ Len(segments) = 2
    /\ IsTranslated(translations, 1)
    /\ \E c \in 1..Len(translations[1]) : translations[1][c] = LF
    /\ SizeChange(1) # 0
    /\ ~IsTranslated(translations, 2)

\* The (prefix_pos, content_start, content_end) triples of a list of segments.
TriplesOf(segs) ==
    [i \in 1..Len(segs) |-> [prefix_pos |-> segs[i].prefix_pos,
                             content_start |-> segs[i].content_start,
                             content_end |-> segs[i].content_end]]

\* C30: the two scanners agree: when the scan of extract_segments over a
\* buffer from a start offset has ended, the triples of its segments are, in
\* order, the list RTZInjector.find_text_segments returns for the same buffer
\* and start offset; the injector's own scan returns that list from offset 0.
C30_ScannersAgree ==
    /\ (routine = "translate_and_patch" /\ pc \notin {"start", "scan"})
           => TriplesOf(segments) = find_text_segments(data, start_offset)
    /\ (routine = "inject_translations" /\ pc \notin {"start", "scan"})
           => segments = find_text_segments(data, 0)
    /\ pc = "start"
           => \A p \in StartOffsets :
                  TriplesOf(extract_segments(data, p)) = find_text_segments(data, p)

\* C30's case: a scan of extract_segments has ended with two segments, one of
\* them of declared length zero.
C30_Witness ==
    /\ routine = "translate_and_patch"
    /\ pc \notin {"start", "scan"}
    /\ Len(segments) = 2
    /\ \E i \in 1..2 : segments[i].content_end = segments[i].content_start
    /\ \E i \in 1..2 : segments[i].content_end > segments[i].content_start

====
